---- MODULE Spec2Model ----
(***************************************************************************)
(* Model of the M-Pesa ETL pipeline's Transform Engine                     *)
(* (scripts/transform/transform_transactions.py).                          *)
(*                                                                         *)
(* A DataFrame is a record [columns, rows]: columns is the sequence of     *)
(* column labels in frame order, rows the sequence of rows in frame order, *)
(* each row a function from the frame's column labels to cells.  A cell is *)
(* Null (NaN / None / NaT) or Some(v).  Numbers are integers: amounts and  *)
(* fees are whole currency units, timestamps are whole minutes counted     *)
(* from Monday 2024-01-01 00:00.  The dtype of a column is fixed by its    *)
(* label (NumericCols are float/int columns, transaction_date is a         *)
(* datetime column, every other raw column is an object column).           *)
(***************************************************************************)
EXTENDS Integers, Sequences, FiniteSets, TLC

VARIABLES
    input,               \* the batch the caller passes to transform_data
    pc,                  \* position inside transform_data
    validation_results,  \* what validate_data returned
    df,                  \* the working frame (df_cleaned, then df_enriched)
    output,              \* df_final once transform_data has returned
    error,               \* the exception that left transform_data, if any
    previous,            \* what the call before this one returned, if any
    source,              \* the rows the transaction file will hold in the end
    now,                 \* the time of the current pipeline run
    step,                \* the position of the current pipeline run
    unique_dates,        \* the dates the aggregation loop has still to visit
    runs,                \* the number of pipeline runs started
    raw_transactions,    \* the four tables, each a sequence of rows
    transformed_transactions,
    daily_transaction_summary,
    fraud_alerts

store == <<raw_transactions, transformed_transactions,
           daily_transaction_summary, fraud_alerts>>
run == <<source, now, step, unique_dates, runs>>
vars == <<input, pc, validation_results, df, output, error, previous, store, run>>

-----------------------------------------------------------------------------
(* Bounds of the model *)

MaxRows == 3
MaxSmallRows == 2
MaxBucketRows == 1
MaxFileRows == 3
MaxRuns == 2
MaxStoredRows == 3

-----------------------------------------------------------------------------
(* Cells *)

Null == <<>>
Some(v) == <<v>>
IsNull(c) == c = <<>>
Val(c) == c[1]

Range(s) == {s[i] : i \in 1..Len(s)}

\* The text values of the model in code-point order (Python's str order,
\* which Series.mode and sort_values use on object columns).
Lex == <<"", "254700000001", "254700000002", "254700000003", "COMPLETED",
         "FAILED", "Garissa", "KES", "Kisumu", "MERCHANT_1001", "Mombasa",
         "Nairobi", "P2P_TRANSFER", "TXN001", "TXN002", "TXN003", "TXN004",
         "TXN005", "TXN006", "Unknown City">>
Rank(s) == CHOOSE i \in 1..Len(Lex) : Lex[i] = s

-----------------------------------------------------------------------------
(* Frames *)

NoFrame == [columns |-> <<>>, rows |-> <<>>]
NoResults == [null_values |-> <<>>, duplicate_ids |-> 0, negative_amounts |-> 0]

Has(d, c) == c \in Range(d.columns)
NRows(d) == Len(d.rows)

\* the sub-sequence of s at the indices in I, in ascending index order
Take(s, I) ==
    [k \in 1..Cardinality(I) |->
        s[CHOOSE i \in I : Cardinality({j \in I : j <= i}) = k]]

\* row[c] = v, adding the key when the row does not have it
SetCell(r, c, v) == [x \in (DOMAIN r) \cup {c} |-> IF x = c THEN v ELSE r[x]]

\* df[c] = <per-row values vals>: replaces the column, or appends it last
SetColumn(d, c, vals) ==
    [columns |-> IF Has(d, c) THEN d.columns ELSE Append(d.columns, c),
     rows    |-> [i \in 1..NRows(d) |-> SetCell(d.rows[i], c, vals[i])]]

\* fixed dtypes of the raw columns and, for a batch that is itself a result
\* of transform_data, of the derived columns: the .dt fields and the flag are
\* integers, the gap is a float, .dt.date and the regions are objects, and
\* the two pd.cut columns are Categorical, neither numeric nor object
NumericCols == {"amount", "fee", "fraud_risk_score", "year", "month", "day_of_week",
                "hour_of_day", "is_suspicious_velocity", "time_since_prev_transaction"}
ObjectCols == {"date_part_date", "sender_region", "receiver_region",
               "transaction_id", "sender_phone", "receiver_phone",
               "transaction_type", "location", "currency", "status",
               "merchant_id", "reference_number", "channel", "category"}

-----------------------------------------------------------------------------
(* validate_data *)

\* a mutant of ValidateRaises: fee, status and fraud_risk_score are looked up too
ValidateRaisesAnyAbsent(d) ==
    \E c \in {"transaction_id", "amount", "fee", "status", "fraud_risk_score"} : ~Has(d, c)

\* df.duplicated(subset=['transaction_id']) and df['amount'] need their column
ValidateRaises(d) == ~Has(d, "transaction_id") \/ ~Has(d, "amount")

\* df.isnull().sum() restricted to the columns with a positive count
NullValues(d) ==
    LET cnt(c) == Cardinality({i \in 1..NRows(d) : IsNull(d.rows[i][c])})
    IN  SelectSeq([k \in 1..Len(d.columns) |-> <<d.columns[k], cnt(d.columns[k])>>],
                  LAMBDA p : p[2] > 0)

\* a mutant of DuplicateIds: duplicated(keep=False), every row of a shared id
DuplicateIdsKeepFalse(d) ==
    Cardinality({i \in 1..NRows(d) :
        \E j \in (1..NRows(d)) \ {i} :
            d.rows[j]["transaction_id"] = d.rows[i]["transaction_id"]})

\* df.duplicated(subset=['transaction_id']).sum(): rows equal to an earlier row
DuplicateIds(d) ==
    Cardinality({i \in 1..NRows(d) :
        \E j \in 1..(i - 1) : d.rows[j]["transaction_id"] = d.rows[i]["transaction_id"]})

\* (df['amount'] < 0).sum(): NaN < 0 is False
NegativeAmounts(d) ==
    Cardinality({i \in 1..NRows(d) :
        ~IsNull(d.rows[i]["amount"]) /\ Val(d.rows[i]["amount"]) < 0})

\* the summary validate_data returns (its dtypes entry restates the fixed
\* dtypes of the columns and is left out)
ValidateData(d) ==
    [null_values |-> NullValues(d),
     duplicate_ids |-> DuplicateIds(d),
     negative_amounts |-> NegativeAmounts(d)]

-----------------------------------------------------------------------------
(* clean_data *)

\* a mutant of DropDuplicates: keep='last'
DropDuplicatesKeepLast(d) ==
    [d EXCEPT !.rows = Take(d.rows, {i \in 1..NRows(d) :
        \A j \in (i + 1)..NRows(d) :
            d.rows[j]["transaction_id"] # d.rows[i]["transaction_id"]})]

\* a mutant of DropDuplicates: no de-duplication at all
DropDuplicatesNone(d) == d

\* df.drop_duplicates(subset=['transaction_id'], keep='first'); NaN ids are
\* equal to each other for drop_duplicates
DropDuplicates(d) ==
    [d EXCEPT !.rows = Take(d.rows, {i \in 1..NRows(d) :
        \A j \in 1..(i - 1) :
            d.rows[j]["transaction_id"] # d.rows[i]["transaction_id"]})]

\* the non-null values of column c, in frame order
Present(d, c) ==
    LET I == {i \in 1..NRows(d) : ~IsNull(d.rows[i][c])}
    IN  [k \in 1..Cardinality(I) |-> Val(Take(d.rows, I)[k][c])]

\* ascending sort of a sequence of integers
SortInts(s) ==
    LET pos(i) == Cardinality({j \in 1..Len(s) :
                      s[j] < s[i] \/ (s[j] = s[i] /\ j < i)}) + 1
    IN  [k \in 1..Len(s) |-> s[CHOOSE i \in 1..Len(s) : pos(i) = k]]

\* Series.median(): skips NaN; NaN (Null) when nothing is left; the mean of
\* the two middle values for an even count (the model's amounts and fees are
\* even, so that mean is an integer)
Median(d, c) ==
    LET s == SortInts(Present(d, c))
        n == Len(s)
    IN  IF n = 0 THEN Null
        ELSE IF n % 2 = 1 THEN Some(s[(n + 1) \div 2])
        ELSE Some((s[n \div 2] + s[n \div 2 + 1]) \div 2)

\* Series.fillna(v): fillna(NaN) changes nothing
FillNa(d, c, v) ==
    SetColumn(d, c, [i \in 1..NRows(d) |->
        IF IsNull(d.rows[i][c]) THEN v ELSE d.rows[i][c]])

\* a mutant of FillNumeric: fraud_risk_score is filled with its median too
RECURSIVE FillNumericAllMedian(_, _)
FillNumericAllMedian(d, k) ==
    IF k > Len(d.columns) THEN d
    ELSE LET c == d.columns[k]
         IN  IF c \notin NumericCols THEN FillNumericAllMedian(d, k + 1)
             ELSE FillNumericAllMedian(FillNa(d, c, Median(d, c)), k + 1)

\* the loop over numeric_cols, in column order
RECURSIVE FillNumeric(_, _)
FillNumeric(d, k) ==
    IF k > Len(d.columns) THEN d
    ELSE LET c == d.columns[k]
         IN  IF c \notin NumericCols THEN FillNumeric(d, k + 1)
             ELSE IF c = "fraud_risk_score"
                  THEN FillNumeric(FillNa(d, c, Some(0)), k + 1)
                  ELSE FillNumeric(FillNa(d, c, Median(d, c)), k + 1)

\* Series.mode()[0]: the most frequent non-null value, the smallest one on a
\* tie; Null when the column has no non-null value (len(mode_val) = 0)
Mode(d, c) ==
    LET vals == {Val(d.rows[i][c]) : i \in {j \in 1..NRows(d) : ~IsNull(d.rows[j][c])}}
        freq(v) == Cardinality({i \in 1..NRows(d) : d.rows[i][c] = Some(v)})
        best == {v \in vals : \A w \in vals : freq(w) <= freq(v)}
    IN  IF vals = {} THEN Null
        ELSE Some(CHOOSE v \in best : \A w \in best : Rank(v) <= Rank(w))

\* a mutant of FillCategorical: transaction_id is not taken off the list
RECURSIVE FillCategoricalWithId(_, _)
FillCategoricalWithId(d, k) ==
    IF k > Len(d.columns) THEN d
    ELSE LET c == d.columns[k]
         IN  IF c \notin ObjectCols
             THEN FillCategoricalWithId(d, k + 1)
             ELSE IF \A i \in 1..NRows(d) : ~IsNull(d.rows[i][c])
                  THEN FillCategoricalWithId(d, k + 1)
                  ELSE FillCategoricalWithId(FillNa(d, c, Mode(d, c)), k + 1)

\* the loop over categorical_cols (object columns except transaction_id)
RECURSIVE FillCategorical(_, _)
FillCategorical(d, k) ==
    IF k > Len(d.columns) THEN d
    ELSE LET c == d.columns[k]
         IN  IF c \notin ObjectCols \/ c = "transaction_id"
             THEN FillCategorical(d, k + 1)
             ELSE IF \A i \in 1..NRows(d) : ~IsNull(d.rows[i][c])
                  THEN FillCategorical(d, k + 1)
                  ELSE FillCategorical(FillNa(d, c, Mode(d, c)), k + 1)

\* a mutant of DropNegativeAmounts: the filter is left out
DropNegativeAmountsKeepAll(d) == d

\* df[df['amount'] >= 0]: NaN >= 0 is False
DropNegativeAmounts(d) ==
    [d EXCEPT !.rows = Take(d.rows, {i \in 1..NRows(d) :
        ~IsNull(d.rows[i]["amount"]) /\ Val(d.rows[i]["amount"]) >= 0})]

\* a mutant of Clip: only the lower limit is applied
ClipLowerOnly(x, lo, hi) == IF x < lo THEN lo ELSE x

\* Series.clip(lo, hi) on one value
Clip(x, lo, hi) == IF x < lo THEN lo ELSE IF x > hi THEN hi ELSE x

ClipScore(d) ==
    SetColumn(d, "fraud_risk_score", [i \in 1..NRows(d) |->
        IF IsNull(d.rows[i]["fraud_risk_score"]) THEN Null
        ELSE Some(Clip(Val(d.rows[i]["fraud_risk_score"]), 0, 100))])

\* a mutant of CleanRaises: transaction_date is not looked up
CleanRaisesNoDate(d) ==
    \/ ~Has(d, "transaction_id")
    \/ ~Has(d, "amount")
    \/ ~Has(d, "fraud_risk_score")

\* the first line of clean_data that indexes an absent column raises KeyError
CleanRaises(d) ==
    \/ ~Has(d, "transaction_id")
    \/ ~Has(d, "amount")
    \/ ~Has(d, "transaction_date")
    \/ ~Has(d, "fraud_risk_score")

\* df['transaction_date'] = pd.to_datetime(df['transaction_date']): the column
\* already holds timestamps, the conversion keeps every value
ToDatetime(d) ==
    SetColumn(d, "transaction_date",
        [i \in 1..NRows(d) |-> d.rows[i]["transaction_date"]])

\* a mutant of CleanData: the negative-amount filter runs before the fills
CleanDataFilterFirst(d) ==
    ClipScore(ToDatetime(FillCategorical(FillNumeric(
        DropNegativeAmounts(DropDuplicates(d)), 1), 1)))

CleanData(d) ==
    ClipScore(ToDatetime(DropNegativeAmounts(
        FillCategorical(FillNumeric(DropDuplicates(d), 1), 1))))

-----------------------------------------------------------------------------
(* enrich_data *)

MinutesPerDay == 24 * 60
\* timestamps count minutes from 2024-01-01 00:00, a Monday
EpochYear == 2023 + 1

IsLeap(y) == (y % 4 = 0 /\ y % 100 # 0) \/ y % 400 = 0
DaysInYear(y) == IF IsLeap(y) THEN 366 ELSE 365
MonthDays(y) == <<31, IF IsLeap(y) THEN 29 ELSE 28, 31, 30, 31, 30, 31, 31, 30, 31, 30, 31>>

\* .dt.date as the number of whole days since 2024-01-01
DateOf(t) == t \div MinutesPerDay

RECURSIVE YearFrom(_, _)
YearFrom(y, day) == IF day < DaysInYear(y) THEN y ELSE YearFrom(y + 1, day - DaysInYear(y))

RECURSIVE DayOfYearFrom(_, _)
DayOfYearFrom(y, day) ==
    IF day < DaysInYear(y) THEN day ELSE DayOfYearFrom(y + 1, day - DaysInYear(y))

RECURSIVE MonthFrom(_, _, _)
MonthFrom(y, m, day) ==
    IF day < MonthDays(y)[m] THEN m ELSE MonthFrom(y, m + 1, day - MonthDays(y)[m])

\* .dt.year, .dt.month, .dt.dayofweek (Monday = 0), .dt.hour
YearOf(t) == YearFrom(EpochYear, DateOf(t))
MonthOf(t) == MonthFrom(YearOf(t), 1, DayOfYearFrom(EpochYear, DateOf(t)))
DayOfWeek(t) == DateOf(t) % 7
HourOfDay(t) == (t % MinutesPerDay) \div 60

\* one .dt field of a transaction_date cell (NaT gives a null field)
DtField(cell, f) ==
    IF IsNull(cell) THEN Null
    ELSE Some(CASE f = "date_part_date" -> DateOf(Val(cell))
                [] f = "year" -> YearOf(Val(cell))
                [] f = "month" -> MonthOf(Val(cell))
                [] f = "day_of_week" -> DayOfWeek(Val(cell))
                [] f = "hour_of_day" -> HourOfDay(Val(cell)))

\* df[f] = df['transaction_date'].dt.<f>
SetDtColumn(d, f) ==
    SetColumn(d, f, [i \in 1..NRows(d) |-> DtField(d.rows[i]["transaction_date"], f)])

\* a mutant of IsWeekend: only Sunday counts
IsWeekendSundayOnly(dow) == IF dow >= 6 THEN 1 ELSE 0

\* (df['day_of_week'] >= 5).astype(int)
IsWeekend(dow) == IF dow >= 5 THEN 1 ELSE 0

EnrichTemporal(d) ==
    LET d5 == SetDtColumn(SetDtColumn(SetDtColumn(SetDtColumn(SetDtColumn(d,
                  "date_part_date"), "year"), "month"), "day_of_week"), "hour_of_day")
    IN  SetColumn(d5, "is_weekend", [i \in 1..NRows(d5) |->
            IF IsNull(d5.rows[i]["day_of_week"]) THEN Some(0)
            ELSE Some(IsWeekend(Val(d5.rows[i]["day_of_week"])))])

\* a mutant of VolumeCategory: pd.cut with right=False, bins [l, r)
VolumeCategoryLeftClosed(a) ==
    IF IsNull(a) THEN Null
    ELSE IF Val(a) < 0 THEN Null
    ELSE IF Val(a) < 100 THEN Some("Very Small")
    ELSE IF Val(a) < 500 THEN Some("Small")
    ELSE IF Val(a) < 2000 THEN Some("Medium")
    ELSE IF Val(a) < 10000 THEN Some("Large")
    ELSE Some("Very Large")

\* pd.cut(amount, bins=[0, 100, 500, 2000, 10000, inf]): right-closed bins
\* (l, r], include_lowest=False; a value in no bin, and NaN, give NaN
VolumeCategory(a) ==
    IF IsNull(a) THEN Null
    ELSE IF Val(a) <= 0 THEN Null
    ELSE IF Val(a) <= 100 THEN Some("Very Small")
    ELSE IF Val(a) <= 500 THEN Some("Small")
    ELSE IF Val(a) <= 2000 THEN Some("Medium")
    ELSE IF Val(a) <= 10000 THEN Some("Large")
    ELSE Some("Very Large")

\* a mutant of FraudCategory: pd.cut with right=False, bins [l, r)
FraudCategoryLeftClosed(s) ==
    IF IsNull(s) THEN Null
    ELSE IF Val(s) < 0 \/ Val(s) >= 100 THEN Null
    ELSE IF Val(s) < 30 THEN Some("Low Risk")
    ELSE IF Val(s) < 70 THEN Some("Medium Risk")
    ELSE Some("High Risk")

\* pd.cut(fraud_risk_score, bins=[0, 30, 70, 100]): right-closed bins (l, r]
FraudCategory(s) ==
    IF IsNull(s) THEN Null
    ELSE IF Val(s) <= 0 \/ Val(s) > 100 THEN Null
    ELSE IF Val(s) <= 30 THEN Some("Low Risk")
    ELSE IF Val(s) <= 70 THEN Some("Medium Risk")
    ELSE Some("High Risk")

EnrichCategories(d) ==
    LET d1 == SetColumn(d, "transaction_volume_category",
                  [i \in 1..NRows(d) |-> VolumeCategory(d.rows[i]["amount"])])
    IN  SetColumn(d1, "fraud_category",
            [i \in 1..NRows(d1) |-> FraudCategory(d1.rows[i]["fraud_risk_score"])])

\* the kenyan_regions dict
kenyan_regions ==
    [Nairobi |-> "Central Kenya", Mombasa |-> "Coastal Kenya",
     Kisumu |-> "Western Kenya", Nakuru |-> "Rift Valley",
     Eldoret |-> "Rift Valley", Kisii |-> "Western Kenya",
     Kitale |-> "Rift Valley", Garissa |-> "North Eastern",
     Thika |-> "Central Kenya", Malindi |-> "Coastal Kenya"]

\* a mutant of Region: an unknown location keeps the NaN of .map
RegionNoDefault(loc) ==
    IF IsNull(loc) THEN Null
    ELSE IF Val(loc) \in DOMAIN kenyan_regions THEN Some(kenyan_regions[Val(loc)])
    ELSE Null

\* df['location'].map(kenyan_regions).fillna('Other Region')
Region(loc) ==
    IF IsNull(loc) THEN Some("Other Region")
    ELSE IF Val(loc) \in DOMAIN kenyan_regions THEN Some(kenyan_regions[Val(loc)])
    ELSE Some("Other Region")

EnrichRegions(d) ==
    LET d1 == SetColumn(d, "sender_region",
                  [i \in 1..NRows(d) |-> Region(d.rows[i]["location"])])
    IN  SetColumn(d1, "receiver_region",
            [i \in 1..NRows(d1) |-> Region(d1.rows[i]["location"])])

\* sort keys: NaN / NaT sort last (na_position='last')
SenderKey(r) ==
    IF IsNull(r["sender_phone"]) THEN Len(Lex) + 1 ELSE Rank(Val(r["sender_phone"]))
DateKeyIsNull(r) == IsNull(r["transaction_date"])
DateBefore(r, q) ==
    \/ ~DateKeyIsNull(r) /\ DateKeyIsNull(q)
    \/ ~DateKeyIsNull(r) /\ ~DateKeyIsNull(q)
         /\ Val(r["transaction_date"]) < Val(q["transaction_date"])
DateSame(r, q) ==
    \/ DateKeyIsNull(r) /\ DateKeyIsNull(q)
    \/ ~DateKeyIsNull(r) /\ ~DateKeyIsNull(q)
         /\ Val(r["transaction_date"]) = Val(q["transaction_date"])

KeyBefore(r, q) ==
    \/ SenderKey(r) < SenderKey(q)
    \/ SenderKey(r) = SenderKey(q) /\ DateBefore(r, q)
KeySame(r, q) == SenderKey(r) = SenderKey(q) /\ DateSame(r, q)

\* a mutant of SortValues: the frame is left in arrival order
SortValuesNone(d) == d

\* a mutant of SortValues: rows with equal keys come out in reverse order
SortValuesTiesReversed(d) ==
    LET n == NRows(d)
        pos(i) == Cardinality({j \in 1..n :
                      \/ KeyBefore(d.rows[j], d.rows[i])
                      \/ KeySame(d.rows[j], d.rows[i]) /\ j > i}) + 1
    IN  [d EXCEPT !.rows = [k \in 1..n |-> d.rows[CHOOSE i \in 1..n : pos(i) = k]]]

\* df.sort_values(['sender_phone', 'transaction_date']): a lexsort, stable
SortValues(d) ==
    LET n == NRows(d)
        pos(i) == Cardinality({j \in 1..n :
                      \/ KeyBefore(d.rows[j], d.rows[i])
                      \/ KeySame(d.rows[j], d.rows[i]) /\ j < i}) + 1
    IN  [d EXCEPT !.rows = [k \in 1..n |-> d.rows[CHOOSE i \in 1..n : pos(i) = k]]]

\* a mutant of PrevTransactionTime: shift(1) over the whole frame, no groupby
PrevTransactionTimeUngrouped(d, i) ==
    IF i = 1 THEN Null ELSE d.rows[i - 1]["transaction_date"]

\* df.groupby('sender_phone')['transaction_date'].shift(1) at frame position i:
\* the date of the nearest earlier row of the same group; rows with a NaN key
\* belong to no group and get NaT
PrevTransactionTime(d, i) ==
    LET same == {j \in 1..(i - 1) :
                    d.rows[j]["sender_phone"] = d.rows[i]["sender_phone"]}
    IN  IF IsNull(d.rows[i]["sender_phone"]) \/ same = {} THEN Null
        ELSE d.rows[CHOOSE j \in same : \A k \in same : k <= j]["transaction_date"]

\* (transaction_date - prev_transaction_time).dt.total_seconds() / 60
MinutesBetween(t, p) ==
    IF IsNull(t) \/ IsNull(p) THEN Null ELSE Some(((Val(t) - Val(p)) * 60) \div 60)

SuspiciousLimit == 5

\* a mutant of SuspiciousVelocity: <= instead of <
SuspiciousVelocityInclusive(ts) ==
    IF IsNull(ts) THEN 0 ELSE IF Val(ts) <= SuspiciousLimit THEN 1 ELSE 0

\* (time_since_prev_transaction < 5).astype(int): NaN < 5 is False
SuspiciousVelocity(ts) ==
    IF IsNull(ts) THEN 0 ELSE IF Val(ts) < SuspiciousLimit THEN 1 ELSE 0

EnrichVelocity(d) ==
    LET d1 == SortValues(d)
        d2 == SetColumn(d1, "prev_transaction_time",
                  [i \in 1..NRows(d1) |-> PrevTransactionTime(d1, i)])
        d3 == SetColumn(d2, "time_since_prev_transaction",
                  [i \in 1..NRows(d2) |->
                      MinutesBetween(d2.rows[i]["transaction_date"],
                                     d2.rows[i]["prev_transaction_time"])])
    IN  SetColumn(d3, "is_suspicious_velocity",
            [i \in 1..NRows(d3) |->
                Some(SuspiciousVelocity(d3.rows[i]["time_since_prev_transaction"]))])

\* enrich_data reads transaction_date, amount, fraud_risk_score (all present
\* after clean_data), then location, then sender_phone
EnrichRaises(d) == ~Has(d, "location") \/ ~Has(d, "sender_phone")

\* the frame enrich_data has built when it raises or returns
EnrichData(d) ==
    IF ~Has(d, "location") THEN EnrichCategories(EnrichTemporal(d))
    ELSE IF ~Has(d, "sender_phone")
         THEN EnrichRegions(EnrichCategories(EnrichTemporal(d)))
         ELSE EnrichVelocity(EnrichRegions(EnrichCategories(EnrichTemporal(d))))

-----------------------------------------------------------------------------
(* transform_data *)

expected_columns ==
    <<"transaction_id", "sender_phone", "receiver_phone", "transaction_type",
      "amount", "fee", "transaction_date", "date_part_date", "year", "month",
      "day_of_week", "hour_of_day", "location", "currency", "status",
      "fraud_risk_score", "fraud_category", "merchant_id", "reference_number",
      "channel", "category", "sender_region", "receiver_region",
      "transaction_volume_category", "is_suspicious_velocity",
      "time_since_prev_transaction">>

\* the value the back-fill loop gives an absent expected column
DefaultCell(c) == IF c \in {"fee", "fraud_risk_score"} THEN Some(0) ELSE Some("")

\* a mutant of Reindex: a frame without rows is returned as it is
ReindexRowsOnly(d) ==
    IF NRows(d) = 0 THEN d
    ELSE [columns |-> expected_columns,
          rows    |-> [i \in 1..NRows(d) |->
                         [c \in Range(expected_columns) |->
                             IF Has(d, c) THEN d.rows[i][c] ELSE DefaultCell(c)]]]

\* the loop over expected_columns, then df_enriched[expected_columns]
Reindex(d) ==
    [columns |-> expected_columns,
     rows    |-> [i \in 1..NRows(d) |->
                    [c \in Range(expected_columns) |->
                        IF Has(d, c) THEN d.rows[i][c] ELSE DefaultCell(c)]]]

\* validation_results = self.validate_data(df)
Validate ==
    /\ pc = "start"
    /\ \/ /\ ValidateRaises(input)
          /\ pc' = "raised"
          /\ error' = "KeyError"
          /\ UNCHANGED validation_results
       \/ /\ ~ValidateRaises(input)
          /\ pc' = "validated"
          /\ validation_results' = ValidateData(input)
          /\ UNCHANGED error
    /\ UNCHANGED <<input, df, output, previous>>
    /\ UNCHANGED <<store, run>>

\* a mutant of Clean: drop_duplicates(inplace=True) on the caller's frame
CleanInPlace ==
    /\ pc = "validated"
    /\ input' = DropDuplicates(input)
    /\ \/ /\ CleanRaises(input)
          /\ pc' = "raised"
          /\ error' = "KeyError"
          /\ UNCHANGED df
       \/ /\ ~CleanRaises(input)
          /\ pc' = "cleaned"
          /\ df' = CleanData(input)
          /\ UNCHANGED error
    /\ UNCHANGED <<validation_results, output, previous>>
    /\ UNCHANGED <<store, run>>

\* df_cleaned = self.clean_data(df)
Clean ==
    /\ pc = "validated"
    /\ \/ /\ CleanRaises(input)
          /\ pc' = "raised"
          /\ error' = "KeyError"
          /\ UNCHANGED df
       \/ /\ ~CleanRaises(input)
          /\ pc' = "cleaned"
          /\ df' = CleanData(input)
          /\ UNCHANGED error
    /\ UNCHANGED <<input, validation_results, output, previous>>
    /\ UNCHANGED <<store, run>>

\* a mutant of Enrich: enrich_data is given the raw batch, not df_cleaned
EnrichRawBatch ==
    /\ pc = "cleaned"
    /\ df' = EnrichData(input)
    /\ \/ /\ EnrichRaises(input)
          /\ pc' = "raised"
          /\ error' = "KeyError"
       \/ /\ ~EnrichRaises(input)
          /\ pc' = "enriched"
          /\ UNCHANGED error
    /\ UNCHANGED <<input, validation_results, output, previous>>
    /\ UNCHANGED <<store, run>>

\* df_enriched = self.enrich_data(df_cleaned); enrich_data assigns its
\* columns to df_cleaned in place, so a raise leaves the columns added so far
Enrich ==
    /\ pc = "cleaned"
    /\ df' = EnrichData(df)
    /\ \/ /\ EnrichRaises(df)
          /\ pc' = "raised"
          /\ error' = "KeyError"
       \/ /\ ~EnrichRaises(df)
          /\ pc' = "enriched"
          /\ UNCHANGED error
    /\ UNCHANGED <<input, validation_results, output, previous>>
    /\ UNCHANGED <<store, run>>

\* the back-fill loop, the column selection and the return
Finish ==
    /\ pc = "enriched"
    /\ pc' = "done"
    /\ output' = Reindex(df)
    /\ UNCHANGED <<input, validation_results, df, error, previous>>
    /\ UNCHANGED <<store, run>>

\* the caller passes the batch transform_data returned to transform_data
TransformAgain ==
    /\ pc = "done"
    /\ previous = NoFrame
    /\ previous' = output
    /\ input' = output
    /\ pc' = "start"
    /\ validation_results' = NoResults
    /\ df' = NoFrame
    /\ output' = NoFrame
    /\ UNCHANGED error
    /\ UNCHANGED <<store, run>>

-----------------------------------------------------------------------------
(* The store: create_tables, load_data_to_table, execute_query *)

\* the columns create_tables declares PRIMARY KEY; no table has any other
\* unique constraint or index
UniqueColumns ==
    [raw_transactions |-> {"transaction_id"},
     transformed_transactions |-> {"transaction_key"},
     fraud_alerts |-> {"alert_id"},
     daily_transaction_summary |-> {"summary_date"}]

\* the columns a table fills by itself (BIGSERIAL, SERIAL)
SerialColumns ==
    [raw_transactions |-> {},
     transformed_transactions |-> {"transaction_key"},
     fraud_alerts |-> {"alert_id"},
     daily_transaction_summary |-> {}]

\* a mutant of KeyViolation: the table accepts any key
KeyViolationNever(table, name, rows) == FALSE

\* a mutant of KeyViolation: the rows are compared with each other only,
\* not with the rows of the table
KeyViolationWithinBatch(table, name, rows) ==
    \E c \in UniqueColumns[name] \ SerialColumns[name] :
        \/ \E i \in 1..Len(rows) : c \notin DOMAIN rows[i] \/ IsNull(rows[i][c])
        \/ \E i, j \in 1..Len(rows) : i < j /\ rows[i][c] = rows[j][c]

\* inserting rows breaks a PRIMARY KEY of table name: a key is NULL, occurs
\* twice among the rows, or is already in the table
KeyViolation(table, name, rows) ==
    \E c \in UniqueColumns[name] \ SerialColumns[name] :
        \/ \E i \in 1..Len(rows) : c \notin DOMAIN rows[i] \/ IsNull(rows[i][c])
        \/ \E i, j \in 1..Len(rows) : i < j /\ rows[i][c] = rows[j][c]
        \/ \E i \in 1..Len(rows), k \in 1..Len(table) : table[k][c] = rows[i][c]

\* the rows with their serial column, numbered on from the table's last row
WithSerial(table, name, rows) ==
    [i \in 1..Len(rows) |->
        IF SerialColumns[name] = {} THEN rows[i]
        ELSE SetCell(rows[i], CHOOSE c \in SerialColumns[name] : TRUE,
                     Some(Len(table) + i))]

\* load_data_to_table: nothing for an empty frame, otherwise one to_sql
\* transaction that appends every row or, on a key violation, none
LoadRaises(table, name, d) == NRows(d) > 0 /\ KeyViolation(table, name, d.rows)
LoadDataToTable(table, name, d) ==
    IF NRows(d) = 0 \/ LoadRaises(table, name, d) THEN table
    ELSE table \o WithSerial(table, name, d.rows)

\* df['load_timestamp'] = pd.to_datetime(datetime.now())
StampLoad(d, t) == SetColumn(d, "load_timestamp", [i \in 1..NRows(d) |-> Some(t)])

-----------------------------------------------------------------------------
(* generate_daily_aggregates *)

RECURSIVE DayOfMonthFrom(_, _, _)
DayOfMonthFrom(y, m, day) ==
    IF day < MonthDays(y)[m] THEN day + 1
    ELSE DayOfMonthFrom(y, m + 1, day - MonthDays(y)[m])

\* date_obj.strftime('%Y-%m-%d'), and the DATE a '%Y-%m-%d' literal denotes:
\* year, month and day of the month of a day number
DateStr(day) ==
    LET y == YearFrom(EpochYear, day)
    IN  <<y, MonthFrom(y, 1, DayOfYearFrom(EpochYear, day)),
          DayOfMonthFrom(y, 1, DayOfYearFrom(EpochYear, day))>>

\* a mutant of RowsOfDate: the WHERE clause is left out
RowsOfAnyDate(T, date_str) == 1..Len(T)

\* WHERE date_part_date = '{date_str}': the positions of the matching rows
RowsOfDate(T, date_str) ==
    {k \in 1..Len(T) :
        /\ ~IsNull(T[k]["date_part_date"])
        /\ DateStr(Val(T[k]["date_part_date"])) = date_str}

\* the positions in K whose value in column c is not NULL
NonNull(T, K, c) == {k \in K : ~IsNull(T[k][c])}

\* SUM(c): NULL values are skipped, and the sum of nothing is NULL
RECURSIVE Total(_, _, _)
Total(T, K, c) ==
    IF K = {} THEN 0
    ELSE LET k == CHOOSE x \in K : TRUE IN Val(T[k][c]) + Total(T, K \ {k}, c)
SumOf(T, K, c) ==
    IF NonNull(T, K, c) = {} THEN Null ELSE Some(Total(T, NonNull(T, K, c), c))

\* MAX(c)
MaxOf(T, K, c) ==
    IF NonNull(T, K, c) = {} THEN Null
    ELSE Some(Val(T[CHOOSE k \in NonNull(T, K, c) :
                      \A j \in NonNull(T, K, c) : Val(T[j][c]) <= Val(T[k][c])][c]))

\* AVG(c) stored in a DECIMAL(15,2) column: hundredths, rounded half up
AvgOf(T, K, c) ==
    LET n == Cardinality(NonNull(T, K, c))
    IN  IF n = 0 THEN Null
        ELSE Some((200 * Total(T, NonNull(T, K, c), c) + n) \div (2 * n))

\* COUNT(CASE WHEN c > v THEN 1 END), COUNT(CASE WHEN c = v THEN 1 END)
CountAbove(T, K, c, v) == Cardinality({k \in NonNull(T, K, c) : Val(T[k][c]) > v})
CountEqual(T, K, c, v) == Cardinality({k \in K : T[k][c] = Some(v)})

FraudThreshold == 70

\* the row the SELECT ... GROUP BY date_part_date gives for the positions K
SummaryRow(T, K) ==
    [summary_date |-> Val(T[CHOOSE k \in K : TRUE]["date_part_date"]),
     total_transactions |-> Cardinality(K),
     total_amount |-> SumOf(T, K, "amount"),
     total_fees |-> SumOf(T, K, "fee"),
     avg_transaction_amount |-> AvgOf(T, K, "amount"),
     max_transaction_amount |-> MaxOf(T, K, "amount"),
     unique_users |-> Cardinality({T[k]["sender_phone"] : k \in NonNull(T, K, "sender_phone")}),
     fraud_attempts |-> CountAbove(T, K, "fraud_risk_score", FraudThreshold),
     successful_transactions |-> CountEqual(T, K, "status", "COMPLETED"),
     failed_transactions |-> CountEqual(T, K, "status", "FAILED")]

\* a mutant of Upsert: INSERT without the ON CONFLICT clause on a table that
\* does not enforce its key
UpsertAppends(summary, r) == Append(summary, r)

\* INSERT ... ON CONFLICT (summary_date) DO UPDATE SET <every other column>
Upsert(summary, r) ==
    IF \E k \in 1..Len(summary) : summary[k].summary_date = r.summary_date
    THEN [k \in 1..Len(summary) |->
            IF summary[k].summary_date = r.summary_date THEN r ELSE summary[k]]
    ELSE Append(summary, r)

\* the one INSERT ... SELECT statement of generate_daily_aggregates: no
\* matching row gives no group and inserts nothing
GenerateDailyAggregates(summary, T, date_str) ==
    IF RowsOfDate(T, date_str) = {} THEN summary
    ELSE Upsert(summary, SummaryRow(T, RowsOfDate(T, date_str)))

-----------------------------------------------------------------------------
(* create_fraud_alerts *)

\* a mutant of FraudRecords: the status is not looked at
FraudRecordsAnyStatus(T) ==
    LET hit == SelectSeq(T, LAMBDA r :
                   /\ ~IsNull(r["fraud_risk_score"])
                   /\ Val(r["fraud_risk_score"]) > FraudThreshold)
    IN  [k \in 1..Len(hit) |->
            [transaction_id |-> hit[k]["transaction_id"],
             alert_timestamp |-> hit[k]["transaction_date"],
             risk_score |-> hit[k]["fraud_risk_score"],
             alert_type |-> hit[k]["fraud_category"]]]

\* SELECT ... FROM transformed_transactions
\* WHERE fraud_risk_score > 70 AND status = 'COMPLETED'
FraudRecords(T) ==
    LET hit == SelectSeq(T, LAMBDA r :
                   /\ ~IsNull(r["fraud_risk_score"])
                   /\ Val(r["fraud_risk_score"]) > FraudThreshold
                   /\ r["status"] = Some("COMPLETED"))
    IN  [k \in 1..Len(hit) |->
            [transaction_id |-> hit[k]["transaction_id"],
             alert_timestamp |-> hit[k]["transaction_date"],
             risk_score |-> hit[k]["fraud_risk_score"],
             alert_type |-> hit[k]["fraud_category"]]]

\* ON CONFLICT (c) needs a unique constraint or index on c to infer; the
\* statement fails without one
ConflictTargetRaises(name, c) == c \notin UniqueColumns[name]

\* INSERT INTO fraud_alerts ... ON CONFLICT (transaction_id) DO NOTHING
InsertAlert(alerts, r) ==
    IF \E k \in 1..Len(alerts) : alerts[k].transaction_id = r.transaction_id
    THEN alerts
    ELSE Append(alerts, [alert_id |-> Len(alerts) + 1,
                         transaction_id |-> r.transaction_id,
                         alert_timestamp |-> r.alert_timestamp,
                         risk_score |-> r.risk_score,
                         alert_type |-> r.alert_type,
                         status |-> "OPEN"])

RECURSIVE InsertAlerts(_, _)
InsertAlerts(alerts, records) ==
    IF records = <<>> THEN alerts
    ELSE InsertAlerts(InsertAlert(alerts, Head(records)), Tail(records))

\* create_fraud_alerts raises at its first INSERT; without a record to
\* insert it raises nothing
CreateFraudAlertsRaises(T) ==
    FraudRecords(T) # <<>> /\ ConflictTargetRaises("fraud_alerts", "transaction_id")
CreateFraudAlerts(alerts, T) ==
    IF CreateFraudAlertsRaises(T) THEN alerts ELSE InsertAlerts(alerts, FraudRecords(T))

-----------------------------------------------------------------------------
(* Input batches *)

\* the columns of a raw batch, in the order the data generator writes them
RawColumns ==
    <<"transaction_id", "sender_phone", "receiver_phone", "transaction_type",
      "amount", "fee", "transaction_date", "location", "currency", "status",
      "fraud_risk_score", "merchant_id", "reference_number", "channel",
      "category">>

Ids == <<"TXN001", "TXN002", "TXN003", "TXN004", "TXN005", "TXN006">>

\* 2024-01-01 10:00 in minutes since 2024-01-01 00:00
TenOClock == 10 * 60

BaseRow(i) ==
    [c \in Range(RawColumns) |->
        CASE c = "transaction_id" -> Some(Ids[i])
          [] c = "sender_phone" -> Some("254700000001")
          [] c = "receiver_phone" -> Some("254700000003")
          [] c = "transaction_type" -> Some("P2P_TRANSFER")
          [] c = "amount" -> Some(1000)
          [] c = "fee" -> Some(20)
          [] c = "transaction_date" -> Some(TenOClock)
          [] c = "location" -> Some("Nairobi")
          [] c = "currency" -> Some("KES")
          [] c = "status" -> Some("COMPLETED")
          [] c = "fraud_risk_score" -> Some(15)
          [] c = "merchant_id" -> Null
          [] c = "reference_number" -> Some("")
          [] c = "channel" -> Some("")
          [] c = "category" -> Some("")]

Frame(rows) == [columns |-> RawColumns, rows |-> rows]

\* rows that share ids, with missing, negative and positive amounts
DedupRows ==
    ({Some("TXN001"), Some("TXN002")} \X {Null, Some(-6), Some(100), Some(2000)})
    \cup ({Null} \X {Some(100), Some(2000)})
DedupBatch(s) ==
    Frame([i \in DOMAIN s |->
        [BaseRow(i) EXCEPT !["transaction_id"] = s[i][1], !["amount"] = s[i][2]]])

\* rows of two senders, or of none, a few minutes apart, with distinct ids
VelocityRows ==
    ({Some("254700000002")} \X {TenOClock, TenOClock + 3, TenOClock + 8, TenOClock + 10})
    \cup ({Null, Some("254700000001")} \X {TenOClock, TenOClock + 3})
VelocityBatch(s) ==
    Frame([i \in DOMAIN s |->
        [BaseRow(i) EXCEPT !["sender_phone"] = s[i][1],
                           !["transaction_date"] = Some(s[i][2])]])

\* rows at and around every bucket boundary, and every kind of location
BucketAmounts == {Null, Some(-6), Some(0), Some(100), Some(102), Some(500), Some(502),
                  Some(2000), Some(2002), Some(10000), Some(10002)}
BucketScores == {Null, Some(-10), Some(0), Some(30), Some(31), Some(70), Some(71),
                 Some(100), Some(150)}
BucketLocations == {Null, Some("Nairobi"), Some("Mombasa"), Some("Kisumu"), Some("Garissa"),
                    Some("Unknown City")}
BucketRows ==
    (BucketAmounts \X {Some(15)}) \cup ({Some(1000)} \X BucketScores)
BucketBatch(s) ==
    Frame([i \in DOMAIN s |->
        [BaseRow(i) EXCEPT !["amount"] = s[i][1], !["fraud_risk_score"] = s[i][2]]])
LocationBatch(s) ==
    Frame([i \in DOMAIN s |-> [BaseRow(i) EXCEPT !["location"] = s[i]]])

\* rows of one sender at 10:00, 10:03 and 10:10; the 10:03 row may repeat the
\* first id or carry a negative amount, the 10:10 row an out-of-range score
OrderRows ==
    {<<FALSE, 1000, TenOClock, 15>>, <<FALSE, 1000, TenOClock + 3, 15>>,
     <<FALSE, -6, TenOClock + 3, 15>>, <<TRUE, 1000, TenOClock + 3, 15>>,
     <<FALSE, 1000, TenOClock + 10, 15>>, <<FALSE, 1000, TenOClock + 10, 150>>}
OrderBatch(s) ==
    Frame([i \in DOMAIN s |->
        [BaseRow(i) EXCEPT !["transaction_id"] = IF s[i][1] THEN Some(Ids[1]) ELSE @,
                           !["sender_phone"] = Some("254700000002"),
                           !["amount"] = Some(s[i][2]),
                           !["transaction_date"] = Some(s[i][3]),
                           !["fraud_risk_score"] = Some(s[i][4])]])

\* rows with a missing amount, fee, score or location next to rows that
\* have one; the fourth row repeats the id of the batch's first row
MissingRows ==
    {<<FALSE, Null, Some(20), Some(85), Some("Mombasa")>>,
     <<FALSE, Some(-6), Null, Some(85), Null>>,
     <<FALSE, Some(100), Some(40), Null, Some("Nairobi")>>,
     <<TRUE, Some(2000), Some(60), Some(85), Some("Kisumu")>>,
     <<FALSE, Some(-8), Some(20), Null, Null>>,
     <<FALSE, Some(2000), Null, Some(85), Null>>}
MissingBatch(s) ==
    Frame([i \in DOMAIN s |->
        [BaseRow(i) EXCEPT !["transaction_id"] = IF s[i][1] THEN Some(Ids[1]) ELSE @,
                           !["amount"] = s[i][2],
                           !["fee"] = s[i][3],
                           !["fraud_risk_score"] = s[i][4],
                           !["location"] = s[i][5]]])

\* rows on the days around a weekend, on a leap day and on a new year's day
Friday == 4 * MinutesPerDay
CalendarDates == {Friday + 23 * 60, Friday + MinutesPerDay, Friday + 3 * MinutesPerDay - 1,
                  Friday + 3 * MinutesPerDay, 59 * MinutesPerDay + TenOClock,
                  366 * MinutesPerDay}
CalendarBatch(s) ==
    Frame([i \in DOMAIN s |-> [BaseRow(i) EXCEPT !["transaction_date"] = Some(s[i])]])

\* batches that lack some of their columns; their rows repeat one id, as
\* the rows of the duplicate test batch do
Droppable == {"transaction_id", "amount", "transaction_date", "sender_phone",
              "fee", "fraud_risk_score", "location", "status"}
SchemaBatch(gone, n) ==
    [columns |-> SelectSeq(RawColumns, LAMBDA c : c \notin gone),
     rows    |-> [i \in 1..n |-> [c \in Range(RawColumns) \ gone |-> BaseRow(1)[c]]]]

-----------------------------------------------------------------------------
(* The transaction file and extract_recent_transactions *)

Noon == 12 * 60
\* three run times: 2024-01-01 12:00 and 14:00, and 2024-01-08 11:00
Times == {Noon, Noon + 2 * 60, 7 * MinutesPerDay + 11 * 60}
\* extract_recent_transactions(days=7)
WindowDays == 7

\* file rows: id, sender, time, amount, score, status; times are 10:00 and
\* 13:00 of 2024-01-01 and 10:00 of 2024-01-08
FileRows ==
    {<<1, "254700000001", TenOClock, 100, 15, "COMPLETED">>,
     <<2, "254700000002", TenOClock, 2000, 15, "FAILED">>,
     <<3, "254700000001", TenOClock + 3 * 60, 500, 85, "FAILED">>,
     <<4, "254700000001", TenOClock + 3 * 60, 100, 85, "COMPLETED">>,
     <<5, "254700000002", 7 * MinutesPerDay + TenOClock, 2000, 15, "COMPLETED">>,
     <<1, "254700000002", TenOClock, 2000, 15, "COMPLETED">>}
FileRow(r) ==
    [BaseRow(r[1]) EXCEPT !["sender_phone"] = Some(r[2]),
                          !["transaction_date"] = Some(r[3]),
                          !["amount"] = Some(r[4]),
                          !["fraud_risk_score"] = Some(r[5]),
                          !["status"] = Some(r[6])]
\* a file of the rows s, written without the columns in gone
File(s, gone) ==
    [columns |-> SelectSeq(RawColumns, LAMBDA c : c \notin gone),
     rows    |-> [i \in DOMAIN s |->
                    [c \in Range(RawColumns) \ gone |-> FileRow(s[i])[c]]]]
FileShapes == {{}, {"fraud_risk_score"}, {"amount"}}

\* the file as it is at time t: the transactions that have happened by then
FileAt(d, t) ==
    [d EXCEPT !.rows = Take(d.rows, {i \in 1..NRows(d) :
        Val(d.rows[i]["transaction_date"]) <= t})]

\* the required-column check of extract_from_csv
required_columns == {"transaction_id", "sender_phone", "receiver_phone",
                     "transaction_type", "amount", "transaction_date"}
ExtractRaises(d) == \E c \in required_columns : ~Has(d, c)

\* df[df['transaction_date'] >= start_date], start_date = now - 7 days
RecentTransactions(d, t) ==
    [d EXCEPT !.rows = Take(d.rows, {i \in 1..NRows(d) :
        Val(d.rows[i]["transaction_date"]) >= t - WindowDays * MinutesPerDay})]

-----------------------------------------------------------------------------
(* run_mpesa_etl_pipeline *)

\* the orchestrator starts a run, or starts one again after the last one
\* ended; phase 1: raw_df = extractor.extract_recent_transactions(days=7)
Extract ==
    /\ step \in {"idle", "succeeded", "failed"}
    /\ runs < MaxRuns
    /\ runs' = runs + 1
    /\ \E t \in Times : t >= now /\ now' = t
    /\ \/ /\ ExtractRaises(source)
          /\ step' = "failed"
          /\ error' = "ValueError"
          /\ input' = NoFrame
       \/ /\ ~ExtractRaises(source)
          /\ step' = "extracted"
          /\ error' = ""
          /\ input' = RecentTransactions(FileAt(source, now'), now')
    /\ pc' = "idle"
    /\ validation_results' = NoResults
    /\ df' = NoFrame
    /\ output' = NoFrame
    /\ unique_dates' = <<>>
    /\ UNCHANGED <<previous, source, store>>

\* loader.load_raw_transactions(raw_df): stamps raw_df, then appends it
LoadRawTransactions ==
    /\ step = "extracted"
    /\ input' = StampLoad(input, now)
    /\ \/ /\ LoadRaises(raw_transactions, "raw_transactions", input')
          /\ step' = "failed"
          /\ error' = "IntegrityError"
          /\ UNCHANGED <<raw_transactions, pc>>
       \/ /\ ~LoadRaises(raw_transactions, "raw_transactions", input')
          /\ step' = "raw_loaded"
          /\ pc' = "start"
          /\ raw_transactions' =
                LoadDataToTable(raw_transactions, "raw_transactions", input')
          /\ UNCHANGED error
    /\ UNCHANGED <<validation_results, df, output, previous, source, now,
                   unique_dates, runs, transformed_transactions,
                   daily_transaction_summary, fraud_alerts>>

\* a mutant of TransformFailed: the exception is logged and the run goes on
\* to the aggregates and alerts
TransformFailureSwallowed ==
    /\ step = "raw_loaded"
    /\ pc = "raised"
    /\ step' = "loaded"
    /\ UNCHANGED <<input, pc, validation_results, df, output, error, previous,
                   source, now, unique_dates, runs, store>>

\* an exception of transform_data leaves the run through its except clause
TransformFailed ==
    /\ step = "raw_loaded"
    /\ pc = "raised"
    /\ step' = "failed"
    /\ UNCHANGED <<input, pc, validation_results, df, output, error, previous,
                   source, now, unique_dates, runs, store>>

\* df['date_part_date'].unique() in order of first appearance, each date
\* formatted by strftime
UniqueDates(d) ==
    LET first == {i \in 1..NRows(d) :
                     \A j \in 1..(i - 1) :
                         d.rows[j]["date_part_date"] # d.rows[i]["date_part_date"]}
    IN  [k \in 1..Cardinality(first) |->
            DateStr(Val(Take(d.rows, first)[k]["date_part_date"]))]

\* loader.load_transformed_transactions(transformed_df): stamps the batch,
\* appends it (the table's only key is its serial), then the loop starts
LoadTransformedTransactions ==
    /\ step = "raw_loaded"
    /\ pc = "done"
    /\ output' = StampLoad(output, now)
    /\ transformed_transactions' =
          LoadDataToTable(transformed_transactions, "transformed_transactions", output')
    /\ unique_dates' = UniqueDates(output)
    /\ step' = "loaded"
    /\ UNCHANGED <<input, pc, validation_results, df, error, previous, source, now,
                   runs, raw_transactions, daily_transaction_summary, fraud_alerts>>

\* one turn of the loop: loader.generate_daily_aggregates(date)
Aggregate ==
    /\ step = "loaded"
    /\ unique_dates # <<>>
    /\ daily_transaction_summary' =
          GenerateDailyAggregates(daily_transaction_summary,
                                  transformed_transactions, Head(unique_dates))
    /\ unique_dates' = Tail(unique_dates)
    /\ UNCHANGED <<input, pc, validation_results, df, output, error, previous,
                   source, now, step, runs, raw_transactions,
                   transformed_transactions, fraud_alerts>>

\* loader.create_fraud_alerts(), the last call of the run
FraudAlerts ==
    /\ step = "loaded"
    /\ unique_dates = <<>>
    /\ \/ /\ CreateFraudAlertsRaises(transformed_transactions)
          /\ step' = "failed"
          /\ error' = "SQLAlchemyError"
          /\ UNCHANGED fraud_alerts
       \/ /\ ~CreateFraudAlertsRaises(transformed_transactions)
          /\ step' = "succeeded"
          /\ fraud_alerts' = CreateFraudAlerts(fraud_alerts, transformed_transactions)
          /\ UNCHANGED error
    /\ UNCHANGED <<input, pc, validation_results, df, output, previous, source, now,
                   unique_dates, runs, raw_transactions, transformed_transactions,
                   daily_transaction_summary>>

-----------------------------------------------------------------------------
(* The loader called directly *)

\* transform_data as one function, for a batch it does not raise on
TransformData(d) == Reindex(EnrichData(CleanData(d)))

LoaderDays == {0, 1, 7}

\* the rows a loaded batch is made of: the file rows, and rows with a score
\* at the alert threshold, just above it, and above the scale
LoaderRows ==
    FileRows \cup {<<6, "254700000001", TenOClock, 100, 70, "COMPLETED">>,
                   <<6, "254700000001", TenOClock, 100, 71, "COMPLETED">>,
                   <<6, "254700000001", TenOClock, 100, 150, "COMPLETED">>}

\* loader.load_transformed_transactions(df) for a transformed one-row batch
CallLoadTransformed ==
    /\ step = "loader"
    /\ Len(transformed_transactions) < MaxStoredRows
    /\ \E r \in LoaderRows :
          /\ output' = StampLoad(TransformData(File(<<r>>, {})), now)
          /\ transformed_transactions' =
                LoadDataToTable(transformed_transactions, "transformed_transactions",
                                output')
    /\ error' = ""
    /\ UNCHANGED <<input, pc, validation_results, df, previous, run,
                   raw_transactions, daily_transaction_summary, fraud_alerts>>

\* loader.generate_daily_aggregates(date_str)
CallGenerateDailyAggregates ==
    /\ step = "loader"
    /\ \E day \in LoaderDays :
          daily_transaction_summary' =
              GenerateDailyAggregates(daily_transaction_summary,
                                      transformed_transactions, DateStr(day))
    /\ error' = ""
    /\ UNCHANGED <<input, pc, validation_results, df, output, previous, run,
                   raw_transactions, transformed_transactions, fraud_alerts>>

\* loader.create_fraud_alerts()
CallCreateFraudAlerts ==
    /\ step = "loader"
    /\ \/ /\ CreateFraudAlertsRaises(transformed_transactions)
          /\ error' = "SQLAlchemyError"
          /\ UNCHANGED fraud_alerts
       \/ /\ ~CreateFraudAlertsRaises(transformed_transactions)
          /\ error' = ""
          /\ fraud_alerts' = CreateFraudAlerts(fraud_alerts, transformed_transactions)
    /\ UNCHANGED <<input, pc, validation_results, df, output, previous, run,
                   raw_transactions, transformed_transactions,
                   daily_transaction_summary>>

-----------------------------------------------------------------------------
(* Specification *)

Init ==
    /\ \/ \E k \in 0..MaxRows : \E s \in [1..k -> DedupRows] : input = DedupBatch(s)
       \/ \E k \in 0..MaxRows : \E s \in [1..k -> VelocityRows] : input = VelocityBatch(s)
       \/ \E k \in 0..MaxBucketRows : \E s \in [1..k -> BucketRows] : input = BucketBatch(s)
       \/ \E k \in 0..MaxSmallRows : \E s \in [1..k -> BucketLocations] :
             input = LocationBatch(s)
       \/ \E k \in 0..MaxRows : \E s \in [1..k -> OrderRows] : input = OrderBatch(s)
       \/ \E k \in 0..MaxSmallRows : \E s \in [1..k -> CalendarDates] :
             input = CalendarBatch(s)
       \/ \E k \in 0..MaxRows : \E s \in [1..k -> MissingRows] :
             input = MissingBatch(s)
       \/ \E k \in 0..MaxSmallRows : \E gone \in SUBSET Droppable :
             input = SchemaBatch(gone, k)
    /\ pc = "start"
    /\ validation_results = NoResults
    /\ df = NoFrame
    /\ output = NoFrame
    /\ error = ""
    /\ previous = NoFrame
    /\ source = NoFrame
    /\ now = 0
    /\ step = "none"
    /\ unique_dates = <<>>
    /\ runs = 0
    /\ raw_transactions = <<>>
    /\ transformed_transactions = <<>>
    /\ daily_transaction_summary = <<>>
    /\ fraud_alerts = <<>>

Next == Validate \/ Clean \/ Enrich \/ Finish \/ TransformAgain

Spec == Init /\ [][Next]_vars

\* the pipeline, run on an empty store by the orchestrator and run again
\* after a run has ended
InitPipeline ==
    /\ \E k \in 0..MaxFileRows : \E s \in [1..k -> FileRows] : \E gone \in FileShapes :
          source = File(s, gone)
    /\ input = NoFrame
    /\ pc = "idle"
    /\ validation_results = NoResults
    /\ df = NoFrame
    /\ output = NoFrame
    /\ error = ""
    /\ previous = NoFrame
    /\ now = 0
    /\ step = "idle"
    /\ unique_dates = <<>>
    /\ runs = 0
    /\ raw_transactions = <<>>
    /\ transformed_transactions = <<>>
    /\ daily_transaction_summary = <<>>
    /\ fraud_alerts = <<>>

NextPipeline ==
    \/ Extract
    \/ LoadRawTransactions
    \/ Validate
    \/ Clean
    \/ Enrich
    \/ Finish
    \/ TransformFailed
    \/ LoadTransformedTransactions
    \/ Aggregate
    \/ FraudAlerts

SpecPipeline == InitPipeline /\ [][NextPipeline]_vars

\* the loader's three operations, called in any order on an empty store
InitLoader ==
    /\ input = NoFrame
    /\ pc = "idle"
    /\ validation_results = NoResults
    /\ df = NoFrame
    /\ output = NoFrame
    /\ error = ""
    /\ previous = NoFrame
    /\ source = NoFrame
    /\ now = 0
    /\ step = "loader"
    /\ unique_dates = <<>>
    /\ runs = 0
    /\ raw_transactions = <<>>
    /\ transformed_transactions = <<>>
    /\ daily_transaction_summary = <<>>
    /\ fraud_alerts = <<>>

NextLoader == CallLoadTransformed \/ CallGenerateDailyAggregates \/ CallCreateFraudAlerts

SpecLoader == InitLoader /\ [][NextLoader]_vars

-----------------------------------------------------------------------------
(* Properties *)

Returned == pc = "done"
Finished == pc \in {"done", "raised"}

Cell(d, i, c) == d.rows[i][c]

\* C1: the transaction_id values of the rows transform_data returns are
\* pairwise distinct, and each is the transaction_id of some input row.
C1_OutputIdsDistinctAndFromInput ==
    Returned =>
        /\ \A i, j \in 1..NRows(output) :
              i # j => Cell(output, i, "transaction_id") # Cell(output, j, "transaction_id")
        /\ \A i \in 1..NRows(output) : \E j \in 1..NRows(input) :
              Cell(input, j, "transaction_id") = Cell(output, i, "transaction_id")

\* a batch with a repeated id was transformed and two rows came back
C1_Witness ==
    /\ Returned
    /\ DuplicateIds(input) > 0
    /\ NRows(output) = 2

\* C2: every row transform_data returns has amount >= 0 and
\* 0 <= fraud_risk_score <= 100.
C2_AmountAndScoreInRange ==
    Returned =>
        \A i \in 1..NRows(output) :
            /\ ~IsNull(Cell(output, i, "amount"))
            /\ Val(Cell(output, i, "amount")) >= 0
            /\ ~IsNull(Cell(output, i, "fraud_risk_score"))
            /\ Val(Cell(output, i, "fraud_risk_score")) >= 0
            /\ Val(Cell(output, i, "fraud_risk_score")) <= 100

\* a batch with a negative amount and an out-of-range score was transformed,
\* and the row with the out-of-range score came back
C2_Witness ==
    /\ Returned
    /\ NegativeAmounts(input) > 0
    /\ \E i \in 1..NRows(input), j \in 1..NRows(output) :
          /\ Cell(input, i, "transaction_id") = Cell(output, j, "transaction_id")
          /\ ~IsNull(Cell(input, i, "fraud_risk_score"))
          /\ Val(Cell(input, i, "fraud_risk_score")) > 100

RequiredCols == {"transaction_id", "amount", "transaction_date"}
MissingRequired(d) == \E c \in RequiredCols : ~Has(d, c)

C4_OptionalColumnsBackfilled ==
    (~MissingRequired(input) /\ Finished) =>
        /\ pc = "done"
        /\ output.columns = expected_columns
        /\ Len(output.columns) = 26
        /\ \A i \in 1..NRows(output) : \A c \in Range(RawColumns) :
              ~Has(input, c) =>
                  Cell(output, i, c) = IF c \in NumericCols THEN Some(0) ELSE Some("")

IdsOf(d) == {Cell(d, i, "transaction_id") : i \in 1..NRows(d)}
RowsWithId(d, id) == {i \in 1..NRows(d) : Cell(d, i, "transaction_id") = id}
FirstWithId(d, id) == CHOOSE i \in RowsWithId(d, id) : \A j \in RowsWithId(d, id) : i <= j
SharedIds(d) == {id \in IdsOf(d) : Cardinality(RowsWithId(d, id)) >= 2}
AmountKept(c) == ~IsNull(c) /\ Val(c) >= 0
Cleaned == pc = "cleaned"

\* C5 as stated: an id shared by several input rows has exactly one cleaned
\* row, carrying the amount of the earliest of them; and without negative
\* amounts there are as many cleaned rows as distinct ids.
C5_OneRowPerSharedId ==
    Cleaned =>
        /\ \A id \in SharedIds(input) :
              /\ Cardinality(RowsWithId(df, id)) = 1
              /\ \A k \in RowsWithId(df, id) :
                    Cell(df, k, "amount") = Cell(input, FirstWithId(input, id), "amount")
        /\ NegativeAmounts(input) = 0 => NRows(df) = Cardinality(IdsOf(input))

\* C5 amended: an id shared by several input rows has at most one cleaned
\* row, and exactly one when the earliest of them has a non-negative amount;
\* that row carries every value the earliest row has (its score clamped);
\* and there are as many cleaned rows as distinct ids when no amount is
\* negative and some first-occurrence row has an amount.
C5_FirstOccurrenceKept ==
    Cleaned =>
        /\ \A id \in SharedIds(input) :
              LET first == input.rows[FirstWithId(input, id)]
              IN  /\ Cardinality(RowsWithId(df, id)) <= 1
                  /\ AmountKept(first["amount"]) => Cardinality(RowsWithId(df, id)) = 1
                  /\ \A k \in RowsWithId(df, id) : \A c \in Range(input.columns) :
                        ~IsNull(first[c]) =>
                            Cell(df, k, c) =
                                IF c = "fraud_risk_score"
                                THEN Some(Clip(Val(first[c]), 0, 100))
                                ELSE first[c]
        /\ (/\ NegativeAmounts(input) = 0
            /\ \E id \in IdsOf(input) :
                  ~IsNull(Cell(input, FirstWithId(input, id), "amount")))
              => NRows(df) = Cardinality(IdsOf(input))

\* two rows share an id with different amounts, a third row has another id,
\* and the cleaned batch holds the first amount for the shared id
C5_Witness ==
    /\ Cleaned
    /\ NRows(input) = 3
    /\ NRows(df) = 2
    /\ \E id \in SharedIds(input) : \E k \in RowsWithId(df, id) :
          /\ \E j \in RowsWithId(input, id) :
                Cell(input, j, "amount") # Cell(input, FirstWithId(input, id), "amount")
          /\ Cell(input, FirstWithId(input, id), "amount") = Some(100)
          /\ Cell(df, k, "amount") = Some(100)

\* the position at which an output row arrived in the input batch
Arrival(i) == FirstWithId(input, Cell(output, i, "transaction_id"))
DateAt(i) == Val(Cell(output, i, "transaction_date"))

\* the output rows of the same sender that precede output row i in time
\* order, equal timestamps being ordered by arrival
EarlierOfSender(i) ==
    {j \in 1..NRows(output) :
        /\ j # i
        /\ ~IsNull(Cell(output, i, "sender_phone"))
        /\ Cell(output, j, "sender_phone") = Cell(output, i, "sender_phone")
        /\ \/ DateAt(j) < DateAt(i)
           \/ DateAt(j) = DateAt(i) /\ Arrival(j) < Arrival(i)}

LatestDate(P) == CHOOSE t \in {DateAt(j) : j \in P} : \A j \in P : DateAt(j) <= t

\* C6: time_since_prev_transaction is null for a sender's earliest row and
\* otherwise the minutes between the row and the same sender's immediately
\* preceding row in time order; rows of other senders play no part.
C6_TimeSincePrevOfSameSender ==
    Returned =>
        \A i \in 1..NRows(output) :
            IF EarlierOfSender(i) = {}
            THEN IsNull(Cell(output, i, "time_since_prev_transaction"))
            ELSE Cell(output, i, "time_since_prev_transaction")
                     = Some(DateAt(i) - LatestDate(EarlierOfSender(i)))

\* one sender's rows of 10:10, 10:00 and 10:03, arriving in that order, come
\* back with gaps null, 3 and 7
C6_Witness ==
    /\ Returned
    /\ NRows(input) = 3
    /\ Cell(input, 1, "transaction_date") = Some(TenOClock + 10)
    /\ Cell(input, 2, "transaction_date") = Some(TenOClock)
    /\ NRows(output) = 3
    /\ \A i \in 1..3 : Cell(output, i, "sender_phone") = Some("254700000002")
    /\ Cell(output, 1, "time_since_prev_transaction") = Null
    /\ Cell(output, 2, "time_since_prev_transaction") = Some(3)
    /\ Cell(output, 3, "time_since_prev_transaction") = Some(7)

\* C7: is_suspicious_velocity is 1 exactly when time_since_prev_transaction is
\* non-null and below 5 minutes, and 0 otherwise.
C7_SuspiciousVelocityBelowFive ==
    Returned =>
        \A i \in 1..NRows(output) :
            LET ts == Cell(output, i, "time_since_prev_transaction")
            IN  Cell(output, i, "is_suspicious_velocity")
                    = IF ~IsNull(ts) /\ Val(ts) < 5 THEN Some(1) ELSE Some(0)

\* gaps null, 3 and exactly 5 are flagged 0, 1 and 0
C7_Witness ==
    /\ Returned
    /\ NRows(output) = 3
    /\ Cell(output, 1, "time_since_prev_transaction") = Null
    /\ Cell(output, 1, "is_suspicious_velocity") = Some(0)
    /\ Cell(output, 2, "time_since_prev_transaction") = Some(3)
    /\ Cell(output, 2, "is_suspicious_velocity") = Some(1)
    /\ Cell(output, 3, "time_since_prev_transaction") = Some(5)
    /\ Cell(output, 3, "is_suspicious_velocity") = Some(0)

\* C8: transaction_volume_category is Very Small for 0 <= amount <= 100
\* (0 included), Small up to 500, Medium up to 2000, Large up to 10000 and
\* Very Large above.
C8_VolumeCategoryBuckets ==
    Returned =>
        \A i \in 1..NRows(output) :
            LET a == Val(Cell(output, i, "amount"))
            IN  Cell(output, i, "transaction_volume_category")
                    = IF a <= 100 THEN Some("Very Small")
                      ELSE IF a <= 500 THEN Some("Small")
                      ELSE IF a <= 2000 THEN Some("Medium")
                      ELSE IF a <= 10000 THEN Some("Large")
                      ELSE Some("Very Large")

\* C9: fraud_category is never null and is one of the three risk labels,
\* also for a score of exactly 0; scores in (0,30] are Low Risk, in (30,70]
\* Medium Risk and in (70,100] High Risk.
C9_FraudCategoryNeverNull ==
    Returned =>
        \A i \in 1..NRows(output) :
            LET sc == Val(Cell(output, i, "fraud_risk_score"))
                fc == Cell(output, i, "fraud_category")
            IN  /\ fc \in {Some("Low Risk"), Some("Medium Risk"), Some("High Risk")}
                /\ (0 < sc /\ sc <= 30) => fc = Some("Low Risk")
                /\ (30 < sc /\ sc <= 70) => fc = Some("Medium Risk")
                /\ (70 < sc /\ sc <= 100) => fc = Some("High Risk")

KnownCities == {"Nairobi", "Mombasa", "Kisumu", "Nakuru", "Eldoret", "Kisii",
                "Kitale", "Garissa", "Thika", "Malindi"}

\* C10: sender_region and receiver_region are equal and are the region the
\* location table gives the row's location (Nairobi: Central Kenya), or
\* Other Region when the location is none of the 10 known cities.
C10_RegionsFromLocation ==
    Returned =>
        \A i \in 1..NRows(output) :
            LET loc == Cell(output, i, "location")
                known == ~IsNull(loc) /\ Val(loc) \in KnownCities
            IN  /\ Cell(output, i, "sender_region") = Cell(output, i, "receiver_region")
                /\ known => Cell(output, i, "sender_region") = Some(kenyan_regions[Val(loc)])
                /\ ~known => Cell(output, i, "sender_region") = Some("Other Region")
                /\ loc = Some("Nairobi") =>
                       Cell(output, i, "sender_region") = Some("Central Kenya")

\* a Nairobi row and a row of an unknown city came back with their regions
C10_Witness ==
    /\ Returned
    /\ \E i, j \in 1..NRows(output) :
          /\ Cell(output, i, "location") = Some("Nairobi")
          /\ Cell(output, i, "sender_region") = Some("Central Kenya")
          /\ Cell(output, i, "receiver_region") = Some("Central Kenya")
          /\ Cell(output, j, "location") = Some("Unknown City")
          /\ Cell(output, j, "sender_region") = Some("Other Region")
          /\ Cell(output, j, "receiver_region") = Some("Other Region")

\* the weekday (Monday = 0) of a timestamp, counted from the Monday 2024-01-01
Weekday(t) == (t \div (24 * 60)) % 7

EmptyRawBatch == NRows(input) = 0 /\ input.columns = RawColumns

\* C12: given a batch with zero rows that carries the raw columns,
\* transform_data raises no error and returns a batch with zero rows whose
\* columns are the 26 canonical columns in their order.
C12_EmptyBatchGivesEmptyCanonicalBatch ==
    EmptyRawBatch =>
        /\ pc # "raised"
        /\ error = ""
        /\ Returned => output = [columns |-> expected_columns, rows |-> <<>>]

\* transform_data has returned for a batch without rows
C12_Witness ==
    /\ EmptyRawBatch
    /\ Returned
    /\ NRows(output) = 0
    /\ Len(output.columns) = 26

\* an input row that cleaning removes: a later row of a repeated id, or a
\* row with a negative amount
Removed(j) ==
    \/ j # FirstWithId(input, Cell(input, j, "transaction_id"))
    \/ ~IsNull(Cell(input, j, "amount")) /\ Val(Cell(input, j, "amount")) < 0

\* C13: validation sees the raw batch, cleaning runs before enrichment, and
\* derived fields are computed from cleaned rows only: fraud_category is the
\* bucket of the clamped score, and a time_since_prev_transaction is the gap
\* to a row cleaning kept, never to a row removed as a duplicate or for a
\* negative amount.
C13_DerivedFromCleanedRows ==
    /\ pc = "start" => validation_results = NoResults /\ df = NoFrame
    /\ pc = "validated" => validation_results = ValidateData(input) /\ df = NoFrame
    /\ pc = "cleaned" =>
          /\ validation_results = ValidateData(input)
          /\ previous = NoFrame =>
                ~Has(df, "fraud_category") /\ ~Has(df, "time_since_prev_transaction")
    /\ Returned =>
          /\ validation_results.duplicate_ids = DuplicateIds(input)
          /\ validation_results.negative_amounts = NegativeAmounts(input)
          /\ \A i \in 1..NRows(output) :
                LET raw == Cell(input, Arrival(i), "fraud_risk_score")
                    ts == Cell(output, i, "time_since_prev_transaction")
                IN  /\ (~IsNull(raw) /\ Val(raw) > 100) =>
                          Cell(output, i, "fraud_category") = Some("High Risk")
                    /\ (~IsNull(raw) /\ Val(raw) <= 0) =>
                          IsNull(Cell(output, i, "fraud_category"))
                    /\ ~Removed(Arrival(i))
                    /\ ~IsNull(ts) =>
                          \E k \in 1..NRows(output) :
                              /\ k # i
                              /\ ~Removed(Arrival(k))
                              /\ Cell(output, k, "sender_phone") =
                                    Cell(output, i, "sender_phone")
                              /\ DateAt(k) = DateAt(i) - Val(ts)

\* rows of 10:00, 10:03 (negative amount) and 10:10 (score 150) of one sender
\* come back as two rows: the 10:10 row is 10 minutes after its predecessor
\* and High Risk
C13_Witness ==
    /\ Returned
    /\ NRows(input) = 3
    /\ Cell(input, 2, "amount") = Some(-6)
    /\ Cell(input, 2, "transaction_date") = Some(TenOClock + 3)
    /\ Cell(input, 3, "fraud_risk_score") = Some(150)
    /\ NRows(output) = 2
    /\ Cell(output, 2, "time_since_prev_transaction") = Some(10)
    /\ Cell(output, 2, "fraud_category") = Some("High Risk")

SecondCall == previous # NoFrame

\* C14: transform_data applied to a batch transform_data returned raises
\* nothing and returns the same rows, in the same order, with the same values
\* in all 26 canonical columns.
C14_TransformIdempotent ==
    SecondCall =>
        /\ pc # "raised"
        /\ input = previous
        /\ Returned =>
              /\ output.columns = expected_columns
              /\ NRows(output) = NRows(previous)
              /\ \A i \in 1..NRows(output) : \A c \in Range(expected_columns) :
                    Cell(output, i, c) = Cell(previous, i, c)

\* a returned batch of three rows, two of them of one sender at one time and
\* one with a gap to its predecessor, was transformed again
C14_Witness ==
    /\ SecondCall
    /\ Returned
    /\ NRows(output) = 3
    /\ \E i \in 1..3 : ~IsNull(Cell(output, i, "time_since_prev_transaction"))
    /\ \E i, j \in 1..3 :
          /\ i < j
          /\ Cell(output, i, "sender_phone") = Cell(output, j, "sender_phone")
          /\ Cell(output, i, "transaction_date") = Cell(output, j, "transaction_date")

InCall == pc \in {"start", "validated", "cleaned", "enriched"}

\* C19: when transform_data raises, no output batch is returned, and no step
\* of the call, the raising one included, has changed the caller's input
\* batch: it has the rows, columns and values it had before the call.
C19_RaiseLeavesInputAndNoOutput ==
    /\ [](pc = "raised" => output = NoFrame /\ error = "KeyError")
    /\ [][InCall => input' = input]_vars

\* clean_data raised on a batch of two rows that repeat an id, after
\* validate_data had returned
C19_Witness ==
    /\ pc = "raised"
    /\ validation_results # NoResults
    /\ NRows(input) = 2
    /\ DuplicateIds(input) = 1
    /\ output = NoFrame

StoredOfDay(d) ==
    {k \in 1..Len(transformed_transactions) :
        transformed_transactions[k]["date_part_date"] = Some(d)}
StoredCell(k, c) == transformed_transactions[k][c]

RECURSIVE AmountSum(_)
AmountSum(K) ==
    IF K = {} THEN 0
    ELSE LET k == CHOOSE x \in K : TRUE
         IN  Val(StoredCell(k, "amount")) + AmountSum(K \ {k})

\* C17: after a successful run, every calendar day of the transformed batch
\* has one summary row, computed over the stored transactions of that day,
\* the batch's among them and each transaction_id once: their count, the sum
\* and the maximum of amount, the number of distinct senders, the count with
\* fraud_risk_score > 70 and the counts with status COMPLETED and FAILED.
C17_SummaryRowPerDayOfBatch ==
    step = "succeeded" =>
        \A i \in 1..NRows(output) :
            LET d == Val(Cell(output, i, "date_part_date"))
                K == StoredOfDay(d)
                S == {k \in 1..Len(daily_transaction_summary) :
                         daily_transaction_summary[k].summary_date = d}
            IN  /\ Cardinality(S) = 1
                /\ \E k \in K :
                      StoredCell(k, "transaction_id") = Cell(output, i, "transaction_id")
                /\ \A j, k \in K :
                      j # k => StoredCell(j, "transaction_id") # StoredCell(k, "transaction_id")
                /\ \A x \in S :
                      LET r == daily_transaction_summary[x]
                      IN  /\ r.total_transactions = Cardinality(K)
                          /\ r.total_amount = Some(AmountSum(K))
                          /\ \E k \in K : r.max_transaction_amount = StoredCell(k, "amount")
                          /\ \A k \in K :
                                Val(StoredCell(k, "amount")) <= Val(r.max_transaction_amount)
                          /\ r.unique_users =
                                Cardinality({StoredCell(k, "sender_phone") : k \in K})
                          /\ r.fraud_attempts =
                                Cardinality({k \in K :
                                    Val(StoredCell(k, "fraud_risk_score")) > 70})
                          /\ r.successful_transactions =
                                Cardinality({k \in K :
                                    StoredCell(k, "status") = Some("COMPLETED")})
                          /\ r.failed_transactions =
                                Cardinality({k \in K :
                                    StoredCell(k, "status") = Some("FAILED")})

\* a second run has added one transaction to a day the first run had
\* summarised and one to another day, and the first day's row counts both
\* of its transactions
C17_Witness ==
    /\ step = "succeeded"
    /\ runs = 2
    /\ NRows(output) = 2
    /\ Len(transformed_transactions) = 3
    /\ Len(daily_transaction_summary) = 2
    /\ \E x \in 1..2 :
          /\ daily_transaction_summary[x].summary_date = 0
          /\ daily_transaction_summary[x].total_transactions = 2
          /\ daily_transaction_summary[x].total_amount = Some(600)
          /\ daily_transaction_summary[x].failed_transactions = 1
          /\ daily_transaction_summary[x].fraud_attempts = 1

\* C18: whatever runs have been made over the same records, the store
\* holds at most one transformed row per transaction_id, each of a record
\* stored raw: a retry adds no second row.
C18_OneTransformedRowPerId ==
    /\ \A j, k \in 1..Len(transformed_transactions) :
          j # k => StoredCell(j, "transaction_id") # StoredCell(k, "transaction_id")
    /\ \A k \in 1..Len(transformed_transactions) :
          \E j \in 1..Len(raw_transactions) :
              raw_transactions[j]["transaction_id"] = StoredCell(k, "transaction_id")

\* a run has been made again over records already stored and has ended in
\* the raw load, the store still holding its transformed rows
C18_Witness ==
    /\ runs = 2
    /\ step = "failed"
    /\ error = "IntegrityError"
    /\ NRows(input) > 0
    /\ Len(transformed_transactions) = NRows(input)
    /\ \A i \in 1..NRows(input) : \E k \in 1..Len(transformed_transactions) :
          StoredCell(k, "transaction_id") = Cell(input, i, "transaction_id")

\* C15: no call of create_fraud_alerts ends in an error, and fraud_alerts
\* holds at most one alert per transaction_id, one for every stored
\* transaction with fraud_risk_score > 70 and status COMPLETED once
\* create_fraud_alerts has returned.
C15_OneAlertPerTransaction ==
    step = "loader" =>
        /\ error = ""
        /\ \A i, j \in 1..Len(fraud_alerts) :
              i # j => fraud_alerts[i].transaction_id # fraud_alerts[j].transaction_id

\* C16: daily_transaction_summary holds at most one row per calendar day,
\* and a call of generate_daily_aggregates changes the row of at most one
\* day, in one step: it adds that day's row or replaces it, and the rows of
\* all other days stay as they are.
C16_OneSummaryRowPerDay ==
    /\ [](\A i, j \in 1..Len(daily_transaction_summary) :
            i # j => daily_transaction_summary[i].summary_date
                         # daily_transaction_summary[j].summary_date)
    /\ [][/\ Len(daily_transaction_summary') >= Len(daily_transaction_summary)
          /\ \A k \in 1..Len(daily_transaction_summary) :
                daily_transaction_summary'[k].summary_date
                    = daily_transaction_summary[k].summary_date
          /\ Cardinality({k \in 1..Len(daily_transaction_summary') :
                  k > Len(daily_transaction_summary)
                  \/ daily_transaction_summary'[k] # daily_transaction_summary[k]}) <= 1
         ]_vars

\* two days have a summary row, and the row of 2024-01-01 counts the two
\* transactions stored for that day
C16_Witness ==
    /\ step = "loader"
    /\ Len(transformed_transactions) = 3
    /\ Len(daily_transaction_summary) = 2
    /\ \E x \in 1..2 :
          /\ daily_transaction_summary[x].summary_date = 0
          /\ daily_transaction_summary[x].total_transactions = 2
    /\ \E x \in 1..2 :
          /\ daily_transaction_summary[x].summary_date = 7
          /\ daily_transaction_summary[x].total_transactions = 1

\* C21: the summary validate_data returns counts as duplicate_ids the rows
\* whose transaction_id repeats that of an earlier row (the rows of the batch
\* less its distinct ids) and as negative_amounts the rows with amount < 0;
\* both are 0 for a batch with distinct ids and no negative amount.
C21_ValidationCounts ==
    pc = "validated" =>
        /\ validation_results.duplicate_ids = NRows(input) - Cardinality(IdsOf(input))
        /\ validation_results.negative_amounts =
              NRows(input) - Cardinality({i \in 1..NRows(input) :
                                 IsNull(Cell(input, i, "amount"))
                                 \/ Val(Cell(input, i, "amount")) >= 0})
        /\ (/\ \A i, j \in 1..NRows(input) :
                  i # j => Cell(input, i, "transaction_id") # Cell(input, j, "transaction_id")
            /\ \A i \in 1..NRows(input) :
                  IsNull(Cell(input, i, "amount")) \/ Val(Cell(input, i, "amount")) >= 0)
           => /\ validation_results.duplicate_ids = 0
              /\ validation_results.negative_amounts = 0

\* three rows share one id, the first of them has a negative amount and the
\* last one no amount: two duplicates and one negative amount are reported
C21_Witness ==
    /\ pc = "validated"
    /\ NRows(input) = 3
    /\ Cardinality(IdsOf(input)) = 1
    /\ Cell(input, 1, "amount") = Some(-6)
    /\ IsNull(Cell(input, 3, "amount"))
    /\ validation_results.duplicate_ids = 2
    /\ validation_results.negative_amounts = 1

\* the rows of the input that de-duplication keeps: the first of each id
FirstRows == {FirstWithId(input, id) : id \in IdsOf(input)}
\* those of them that have a value in column c
FirstRowsWith(c) == {k \in FirstRows : ~IsNull(Cell(input, k, c))}
\* the r-th smallest value of column c over the rows de-duplication keeps
NthSmallest(c, r) ==
    CHOOSE v \in {Val(Cell(input, k, c)) : k \in FirstRowsWith(c)} :
        /\ Cardinality({k \in FirstRowsWith(c) : Val(Cell(input, k, c)) < v}) < r
        /\ r <= Cardinality({k \in FirstRowsWith(c) : Val(Cell(input, k, c)) <= v})
\* twice the median of column c over the rows de-duplication keeps, rows
\* with a negative amount included
TwiceMedian(c) ==
    NthSmallest(c, (Cardinality(FirstRowsWith(c)) + 1) \div 2)
        + NthSmallest(c, Cardinality(FirstRowsWith(c)) \div 2 + 1)
\* the input row a row of the working frame comes from
Origin(i) == FirstWithId(input, Cell(df, i, "transaction_id"))

\* C22: in the cleaned frame, an amount or fee (the numeric columns of a raw
\* batch other than fraud_risk_score) that was missing holds the column's
\* median over the first rows of each id, negative-amount rows included,
\* and stays missing when none of those rows has a value; a present value
\* is kept; a missing fraud_risk_score holds 0.
C22_MedianFillAndZeroScore ==
    pc = "cleaned" =>
        \A i \in 1..NRows(df) :
            /\ \A c \in {"amount", "fee"} \cap Range(input.columns) :
                  IF ~IsNull(Cell(input, Origin(i), c))
                  THEN Cell(df, i, c) = Cell(input, Origin(i), c)
                  ELSE IF FirstRowsWith(c) = {}
                  THEN IsNull(Cell(df, i, c))
                  ELSE /\ ~IsNull(Cell(df, i, c))
                       /\ 2 * Val(Cell(df, i, c)) = TwiceMedian(c)
            /\ IsNull(Cell(input, Origin(i), "fraud_risk_score"))
                  => Cell(df, i, "fraud_risk_score") = Some(0)

\* amounts 100, missing and -6: the missing amount becomes 47, the median
\* of 100 and -6, and the missing score of the first row becomes 0 although
\* the other scores are 85
C22_Witness ==
    /\ pc = "cleaned"
    /\ NRows(input) = 3
    /\ Cell(input, 1, "amount") = Some(100)
    /\ IsNull(Cell(input, 1, "fraud_risk_score"))
    /\ IsNull(Cell(input, 2, "amount"))
    /\ Cell(input, 2, "fraud_risk_score") = Some(85)
    /\ Cell(input, 3, "amount") = Some(-6)
    /\ IsNull(Cell(input, 3, "fee"))
    /\ NRows(df) = 2
    /\ Cell(df, 1, "fraud_risk_score") = Some(0)
    /\ Cell(df, 2, "amount") = Some(47)

\* the first row j of an id is still in the cleaned frame
KeptByClean(j) == \E i \in 1..NRows(df) : Origin(i) = j
HasMedian(c) == FirstRowsWith(c) # {}

Frequency(c, v) == Cardinality({k \in FirstRows : Cell(input, k, c) = Some(v)})
\* v is the most frequent value of column c, the first in sort order of
\* the values that are equally frequent
MostFrequent(c, v) ==
    /\ Frequency(c, v) > 0
    /\ \A k \in FirstRowsWith(c) :
          LET w == Val(Cell(input, k, c))
          IN  \/ Frequency(c, w) < Frequency(c, v)
              \/ Frequency(c, w) = Frequency(c, v) /\ Rank(v) <= Rank(w)
\* the filter on amount keeps the first row j of an id
PassesFilter(j) ==
    IF IsNull(Cell(input, j, "amount"))
    THEN HasMedian("amount") /\ TwiceMedian("amount") >= 0
    ELSE Val(Cell(input, j, "amount")) >= 0

\* C24: in the cleaned frame, a text column's value that was missing holds
\* the most frequent value of the column over the first rows of each id,
\* and stays missing when none of those rows has a value; a present value
\* is kept; a row without a transaction_id is still without one.
C24_ModeFillExceptId ==
    pc = "cleaned" =>
        /\ \A i \in 1..NRows(df) :
              \A c \in (ObjectCols \ {"transaction_id"}) \cap Range(input.columns) :
                  IF ~IsNull(Cell(input, Origin(i), c))
                  THEN Cell(df, i, c) = Cell(input, Origin(i), c)
                  ELSE IF FirstRowsWith(c) = {}
                  THEN IsNull(Cell(df, i, c))
                  ELSE /\ ~IsNull(Cell(df, i, c))
                       /\ MostFrequent(c, Val(Cell(df, i, c)))
        /\ \A j \in FirstRows :
              IsNull(Cell(input, j, "transaction_id")) /\ PassesFilter(j)
                  => \E i \in 1..NRows(df) : IsNull(Cell(df, i, "transaction_id"))
        /\ \A i, j \in 1..NRows(df) :
              i # j => Cell(df, i, "transaction_id") # Cell(df, j, "transaction_id")

\* locations Nairobi, Kisumu on a row that repeats the first id, and
\* missing: the missing one becomes Nairobi, the dropped duplicate's Kisumu
\* does not tie with it, and merchant_id, missing on every row, stays missing
C24_Witness ==
    /\ pc = "cleaned"
    /\ NRows(input) = 3
    /\ Cell(input, 1, "location") = Some("Nairobi")
    /\ Cell(input, 2, "location") = Some("Kisumu")
    /\ Cell(input, 2, "transaction_id") = Cell(input, 1, "transaction_id")
    /\ IsNull(Cell(input, 3, "location"))
    /\ NRows(df) = 2
    /\ Cell(df, 2, "location") = Some("Nairobi")
    /\ IsNull(Cell(df, 2, "merchant_id"))

SenderAt(i) == Cell(output, i, "sender_phone")
\* output rows i and j have the same sender and the same transaction_date
Tied(i, j) == i # j /\ ~IsNull(SenderAt(i)) /\ SenderAt(i) = SenderAt(j) /\ DateAt(i) = DateAt(j)

\* C25: the returned rows are in ascending order of (sender_phone,
\* transaction_date), rows without a sender last; two rows of one sender with
\* equal transaction_date are in their arrival order, the later-arriving one
\* has time_since_prev_transaction = 0, and the earliest-arriving one has
\* the gap to the sender's latest earlier timestamp, or none.
C25_StableSortBySenderAndDate ==
    Returned =>
        /\ \A i, j \in 1..NRows(output) :
              i < j =>
                  /\ IsNull(SenderAt(i)) => IsNull(SenderAt(j))
                  /\ ~IsNull(SenderAt(j)) => Rank(Val(SenderAt(i))) <= Rank(Val(SenderAt(j)))
                  /\ SenderAt(i) = SenderAt(j) => DateAt(i) <= DateAt(j)
                  /\ Tied(i, j) => Arrival(i) < Arrival(j)
        /\ \A j \in 1..NRows(output) :
              LET before == {i \in 1..NRows(output) : Tied(i, j) /\ Arrival(i) < Arrival(j)}
                  sooner == {i \in 1..NRows(output) :
                                /\ ~IsNull(SenderAt(j))
                                /\ SenderAt(i) = SenderAt(j)
                                /\ DateAt(i) < DateAt(j)}
                  gap == Cell(output, j, "time_since_prev_transaction")
              IN  IF before # {} THEN gap = Some(0)
                  ELSE IF sooner = {} THEN IsNull(gap)
                  ELSE gap = Some(DateAt(j) - LatestDate(sooner))

\* one sender's rows of 10:10, 10:03 and 10:03 arrive in that order: the
\* two rows of 10:03 come back first, in arrival order, with gaps null and
\* 0, and the row of 10:10 last with gap 7
C25_Witness ==
    /\ Returned
    /\ previous = NoFrame
    /\ NRows(input) = 3
    /\ Cell(input, 1, "transaction_date") = Some(TenOClock + 10)
    /\ Cell(input, 2, "transaction_date") = Some(TenOClock + 3)
    /\ Cell(input, 3, "transaction_date") = Some(TenOClock + 3)
    /\ NRows(output) = 3
    /\ \A i \in 1..3 : SenderAt(i) = Some("254700000002")
    /\ Cell(output, 1, "transaction_id") = Some(Ids[2])
    /\ Cell(output, 2, "transaction_id") = Some(Ids[3])
    /\ Cell(output, 3, "transaction_id") = Some(Ids[1])
    /\ IsNull(Cell(output, 1, "time_since_prev_transaction"))
    /\ Cell(output, 2, "time_since_prev_transaction") = Some(0)
    /\ Cell(output, 3, "time_since_prev_transaction") = Some(7)

\* the dates of the batch transform_data returned
DatesOfBatch(d) == {DateStr(Val(d.rows[i]["date_part_date"])) : i \in 1..NRows(d)}

\* C26: in a run of run_mpesa_etl_pipeline the phases follow one another in
\* the order extract, load raw, transform, load transformed, aggregates for
\* each date of the batch, fraud alerts: each table is written in its own
\* phase only, transform_data runs between the two loads and writes no
\* table, and a phase that raises ends the run with its error, after which
\* nothing is written until a new run starts.
C26_PhasesInOrder ==
    [][/\ step' # step =>
             \/ step \in {"idle", "succeeded", "failed"}
                   /\ step' \in {"extracted", "failed"} /\ runs' = runs + 1
             \/ step = "extracted" /\ step' \in {"raw_loaded", "failed"}
             \/ step = "raw_loaded" /\ step' = "loaded" /\ pc = "done"
                   /\ Range(unique_dates') = DatesOfBatch(output)
             \/ step = "raw_loaded" /\ step' = "failed" /\ pc = "raised"
             \/ step = "loaded" /\ step' \in {"succeeded", "failed"}
                   /\ unique_dates = <<>>
       /\ raw_transactions' # raw_transactions
             => step = "extracted" /\ step' = "raw_loaded"
       /\ pc' # pc /\ step' = step
             => step = "raw_loaded" /\ store' = store
       /\ transformed_transactions' # transformed_transactions
             => step = "raw_loaded" /\ step' = "loaded"
       /\ daily_transaction_summary' # daily_transaction_summary
             => step = "loaded" /\ step' = "loaded" /\ unique_dates # <<>>
       /\ step = "loaded" /\ step' = "loaded"
             => unique_dates # <<>> /\ unique_dates' = Tail(unique_dates)
       /\ fraud_alerts' # fraud_alerts
             => step = "loaded" /\ step' = "succeeded"
       /\ step' = "failed" /\ runs' = runs
             => store' = store /\ error' # ""
       /\ step = "failed"
             => store' = store /\ runs' = runs + 1
      ]_vars

\* a run has stored its raw batch and has then failed in transform_data
\* with a KeyError: nothing was written after the raw load
C26_Witness ==
    /\ step = "failed"
    /\ error = "KeyError"
    /\ pc = "raised"
    /\ runs = 1
    /\ Len(raw_transactions) = 2
    /\ transformed_transactions = <<>>
    /\ daily_transaction_summary = <<>>
    /\ fraud_alerts = <<>>

\* the stored rows the transform bucketed as High Risk, with status COMPLETED
HighRiskCompleted ==
    {k \in 1..Len(transformed_transactions) :
        /\ StoredCell(k, "fraud_category") = Some("High Risk")
        /\ StoredCell(k, "status") = Some("COMPLETED")}

BatchMeetsStoredId ==
    \E i \in 1..NRows(input), k \in 1..Len(raw_transactions) :
        Cell(input, i, "transaction_id") = raw_transactions[k]["transaction_id"]

\* C28: raw_transactions never holds two rows with one transaction_id; a
\* run whose extracted batch holds an id already stored there fails in the
\* raw load with an IntegrityError and writes nothing, transform_data has
\* not been entered when it fails, and nothing is written after the failure
\* until a new run starts.
C28_StoredIdFailsRawLoad ==
    /\ [](\A j, k \in 1..Len(raw_transactions) :
            j # k => raw_transactions[j]["transaction_id"]
                         # raw_transactions[k]["transaction_id"])
    /\ [](step = "failed" /\ error = "IntegrityError"
            => pc = "idle" /\ df = NoFrame /\ output = NoFrame)
    /\ [][/\ step = "extracted" /\ BatchMeetsStoredId
               => /\ step' = "failed"
                  /\ error' = "IntegrityError"
                  /\ store' = store
          /\ step = "failed" => store' = store
         ]_vars

\* the run of 12:00 has stored one record and succeeded; the run of 14:00,
\* whose window holds that record and a new one, has failed in the raw load
\* and the store is as the first run left it
C28_Witness ==
    /\ runs = 2
    /\ now = Noon + 2 * 60
    /\ step = "failed"
    /\ error = "IntegrityError"
    /\ pc = "idle"
    /\ NRows(input) = 2
    /\ Len(raw_transactions) = 1
    /\ raw_transactions[1]["transaction_id"] = Cell(input, 1, "transaction_id")
    /\ raw_transactions[1]["transaction_id"] # Cell(input, 2, "transaction_id")
    /\ Len(transformed_transactions) = 1
    /\ Len(daily_transaction_summary) = 1
    /\ daily_transaction_summary[1].total_transactions = 1

====
